---------------------------- MODULE Spec2Model ----------------------------
(***************************************************************************)
(* Destination-Scanner-2026: the offer pipeline of services/flightProvider *)
(* (normalizeOffer, validateOffer, calculateOfferScore), the monthly       *)
(* recommendation engine (getMonthlyRecommendations), the trend builder    *)
(* (getYearlyTrend), the insight service (getTravelInsight) and the App's  *)
(* month selection (handleRecClick) and verification flow (VerifyDialog,   *)
(* handleVerifyConfirm).                                                   *)
(*                                                                         *)
(* Numbers.  The source computes in IEEE doubles; the model computes the   *)
(* same quantities exactly, in fixed point:                                *)
(*   - a base price in US dollars is held in cents (basePriceUsd = 15000   *)
(*     is $150.00);                                                        *)
(*   - the passenger multiplier is held in twentieths (0.75 = 15/20,       *)
(*     0.1 = 2/20);                                                        *)
(*   - USD_TO_PHP = 56.45 is held in hundredths (5645);                    *)
(*   - PRICE_WEIGHT and QUALITY_WEIGHT are held in hundredths and a score  *)
(*     is held multiplied by 15,000,000.                                  *)
(* Math.round is round-half-up (floor(x + 1/2)).                           *)
(*                                                                         *)
(* Specifications: Spec drives one raw offer through normalizeOffer and    *)
(* validateOffer; ScoreSpec scores two offers; EngineSpec is one           *)
(* getMonthlyRecommendations build and CallsSpec two of them in flight;    *)
(* TrendSpec is one getYearlyTrend call; RecClickSpec is the App's month   *)
(* selection with its requests in flight; VerifySpec is the verification   *)
(* dialog and the update of the recommendations; SelectorSpec is the       *)
(* passenger selector; RevalidateSpec applies validateOffer to offers that *)
(* already carry a verdict; DatesSpec is the date arithmetic of the mock   *)
(* generator. The variables of all are declared together; each             *)
(* specification holds the others' at rest.                                *)
(***************************************************************************)
EXTENDS Integers, Sequences, FiniteSets

VARIABLES
    pc,             \* pipeline position: "idle", "raw", "normalized", "validated"
    raw,            \* the raw offer handed to normalizeOffer
    offer,          \* the OfferCanonical (NoOffer before normalizeOffer)
    threw,          \* validateOffer ended in a TypeError
    epc,            \* engine position: "off", "months", "done", "threw"
    diversify,      \* params.diversify
    month,          \* the month loop's counter
    countryIdx,     \* the country loop's position in COUNTRIES (1-based)
    candidates,     \* the month's candidates
    validOffers,    \* the VALID offers of the country scanned last
    countryUsage,   \* the build's per-country usage counter
    allMonthsRecs,  \* the MonthRecommendation list being built
    spc,            \* scoring position: "off", "offers", "scored"
    scoredOffers,   \* the two offers handed to calculateOfferScore
    scores,         \* their scores
    calls,          \* the state of each getMonthlyRecommendations call in flight
    running,        \* the call the event loop is running (0: none)
    tpc,            \* getYearlyTrend position: "off", "months", "done", "threw"
    destIata,       \* its destination airport
    trendMonth,     \* its month loop's counter
    valid,          \* the validated offer sampled last
    series,         \* the MarketPricePoint list being built
    selectedRec,    \* App state: the recommendation opened last
    insight,        \* App state: the insight text on display
    trendData,      \* App state: the trend on display
    clicks,         \* the handleRecClick runs, in the order they were started
    recs,           \* App state: the recommendations, with their verification
    verifyTarget,   \* App state: the rec and offer type under verification
    step,           \* VerifyDialog state: the dialog's step
    gfPrice,        \* VerifyDialog state: the text of the price input
    now,            \* the clock new Date() reads, one tick per confirmation
    trail,          \* the dialog's handlers run since it mounted, in first-run order
    emitted,        \* the VerificationReport handed to onConfirm last
    query,          \* App state: the tracked query (its passengers)
    sample,         \* generateRawMockOffers input: month, day, tripLengthNights
    generated       \* the departDate and returnDate of its offers

pipelineVars == <<pc, raw, offer, threw>>
engineVars == <<epc, diversify, month, countryIdx, candidates, validOffers, countryUsage,
                allMonthsRecs>>
scoreVars == <<spc, scoredOffers, scores>>
callVars == <<calls, running>>
trendVars == <<tpc, destIata, trendMonth, valid, series>>
clickVars == <<selectedRec, insight, trendData, clicks>>
verifyVars == <<recs, verifyTarget, step, gfPrice, now, trail, emitted>>
selectorVars == <<query>>
datesVars == <<sample, generated>>
vars == <<pipelineVars, engineVars, scoreVars, callVars, trendVars, clickVars,
          verifyVars, selectorVars, datesVars>>

\* What an action of one specification leaves alone: the variables of the
\* other specifications.
nonPipelineVars == <<engineVars, scoreVars, callVars, trendVars, clickVars, verifyVars,
                     selectorVars, datesVars>>
nonEngineVars == <<pipelineVars, scoreVars, callVars, trendVars, clickVars, verifyVars,
                   selectorVars, datesVars>>
nonScoreVars == <<pipelineVars, engineVars, callVars, trendVars, clickVars, verifyVars,
                  selectorVars, datesVars>>
nonCallVars == <<pipelineVars, engineVars, scoreVars, trendVars, clickVars, verifyVars,
                 selectorVars, datesVars>>
nonTrendVars == <<pipelineVars, engineVars, scoreVars, callVars, clickVars, verifyVars,
                  selectorVars, datesVars>>
nonClickVars == <<pipelineVars, engineVars, scoreVars, callVars, trendVars, verifyVars,
                  selectorVars, datesVars>>
nonVerifyVars == <<pipelineVars, engineVars, scoreVars, callVars, trendVars, clickVars,
                   selectorVars, datesVars>>
nonSelectorVars == <<pipelineVars, engineVars, scoreVars, callVars, trendVars, clickVars,
                     verifyVars, datesVars>>
nonDatesVars == <<pipelineVars, engineVars, scoreVars, callVars, trendVars, clickVars,
                  verifyVars, selectorVars>>

---------------------------------------------------------------------------
(* Bounds of the model *)

\* Longest slice (in segments) among the offers handed to the pipeline.
MaxSegments == 2

---------------------------------------------------------------------------
(* Program constants *)

\* constants.ts: USD_TO_PHP = 56.45, in hundredths.
USD_TO_PHP == 5645
\* constants.ts: PRICE_WEIGHT = 0.75 and QUALITY_WEIGHT = 0.25, in hundredths.
PRICE_WEIGHT == 75
QUALITY_WEIGHT == 25
\* flightProvider.ts: the hard price floor of a long-haul round trip (PHP).
IMPOSSIBLE_PH_SFO_PRICE == 15000
\* validateOffer: the soft outlier floor (PHP).
SoftOutlierPrice == 5000
\* validateOffer: slices a round trip must carry (outbound, inbound).
RoundTripSlices == 2
\* PassengerSelector.update: the cap on the total passenger count.
MaxPassengers == 9

\* validateOffer, rule 1: the destinations treated as long haul.
LongHaulDests == {"SFO", "LAX", "JFK", "LHR", "CDG", "FCO"}
\* validateOffer, rule 1: 5J = Cebu Pacific, AK = AirAsia.
LowCostCarriers == {"5J", "AK"}
\* validateOffer, soft check: the destinations where a low price is plausible.
PlausiblyCheapDests == {"SIN", "HKG", "TPE"}

---------------------------------------------------------------------------
(* Arithmetic helpers *)

\* Math.round(n / d) for n >= 0 and an even d > 0: floor(n/d + 1/2).
RoundDiv(n, d) == (n + d \div 2) \div d

\* Math.round(p * num / den) for p >= 0, den even, without leaving 32 bits:
\* p = q * den + r gives p * num / den = q * num + r * num / den.
MulDivRound(p, num, den) == (p \div den) * num + RoundDiv((p % den) * num, den)

SeqsUpTo(S, n) == UNION {[1..k -> S] : k \in 0..n}

RECURSIVE SumSeq(_)
SumSeq(s) == IF s = <<>> THEN 0 ELSE Head(s) + SumSeq(Tail(s))

---------------------------------------------------------------------------
(* Data model *)

NoOffer == [none |-> TRUE]

\* Passengers: adults >= 1, the others >= 0, total <= MaxPassengers.
PassengerMixes ==
    {p \in [adults : 1..MaxPassengers, children : 0..MaxPassengers,
            infantsInSeat : 0..MaxPassengers, infantsOnLap : 0..MaxPassengers] :
        p.adults + p.children + p.infantsInSeat + p.infantsOnLap <= MaxPassengers}

DefaultPassengers == [adults |-> 1, children |-> 0, infantsInSeat |-> 0, infantsOnLap |-> 0]

\* A FlightSegment (the fields the pipeline reads).
Segment(carrier, from, to) == [carrierIata |-> carrier, fromIata |-> from, toIata |-> to]

\* A FlightSlice: its segments in order, with the derived totals.
Slice(direction, segments, stops, duration) ==
    [direction |-> direction, totalDurationMin |-> duration, stopsCount |-> stops,
     segments |-> segments]

---------------------------------------------------------------------------
(* normalizeOffer *)

\* normalizeOffer, pMult: adults + 0.75 children + 0.1 infants, in twentieths.
PassengerMultiplier(p) ==
    p.adults * 20 + p.children * 15 + (p.infantsInSeat + p.infantsOnLap) * 2

\* price.totalPHP = Math.round(raw.basePriceUsd * pMult * USD_TO_PHP):
\* cents * twentieths * hundredths, hence the divisor 100 * 20 * 100.
TotalPHPOf(r) ==
    MulDivRound(r.basePriceUsd * PassengerMultiplier(r.passengers), USD_TO_PHP, 200000)

\* price.total = Math.round(raw.basePriceUsd * pMult): cents * twentieths.
TotalOf(r) == RoundDiv(r.basePriceUsd * PassengerMultiplier(r.passengers), 2000)

normalizeOffer(r) ==
    [tripType |-> "round_trip",
     originIata |-> r.origin,
     destinationIata |-> r.dest,
     departMonth |-> r.departMonth,
     passengers |-> r.passengers,
     price |-> [total |-> TotalOf(r), currency |-> "USD", totalPHP |-> TotalPHPOf(r),
                fxRate |-> USD_TO_PHP],
     slices |-> r.slices,
     validation |-> [status |-> "VALID", reasonCodes |-> <<>>, confidence |-> "HIGH"]]

---------------------------------------------------------------------------
(* validateOffer *)

Repeat(code, n) == [i \in 1..n |-> code]

\* const airline = offer.slices[0].segments[0].carrierIata: a TypeError when
\* there is no first slice, or the first slice has no first segment.
AirlineReadThrows(o) ==
    \/ Len(o.slices) = 0
    \/ Len(o.slices[1].segments) = 0

\* Rule 1 as it would read had the AirAsia code been left out (variant for C6).
CarrierForDistanceCodes_CebuOnly(o) ==
    IF /\ o.destinationIata \in LongHaulDests
       /\ o.slices[1].segments[1].carrierIata = "5J"
    THEN <<"INVALID_CARRIER_FOR_DISTANCE">>
    ELSE <<>>

\* Rule 1, route plausibility.
CarrierForDistanceCodes(o) ==
    IF /\ o.destinationIata \in LongHaulDests
       /\ o.slices[1].segments[1].carrierIata \in LowCostCarriers
    THEN <<"INVALID_CARRIER_FOR_DISTANCE">>
    ELSE <<>>

\* Rule 2 with an inclusive floor, price <= 15000 (variant for C7).
HardPriceCodes_Inclusive(o) ==
    IF /\ o.destinationIata \in LongHaulDests
       /\ o.price.totalPHP <= IMPOSSIBLE_PH_SFO_PRICE
    THEN <<"OUTLIER_HARD_PRICE_TOO_LOW">>
    ELSE <<>>

\* Rule 2, price sanity (long haul).
HardPriceCodes(o) ==
    IF /\ o.destinationIata \in LongHaulDests
       /\ o.price.totalPHP < IMPOSSIBLE_PH_SFO_PRICE
    THEN <<"OUTLIER_HARD_PRICE_TOO_LOW">>
    ELSE <<>>

\* Rule 3, round trip completeness.
RoundTripCodes(o) ==
    IF o.tripType = "round_trip" /\ Len(o.slices) < RoundTripSlices
    THEN <<"MISSING_INBOUND_SLICE">>
    ELSE <<>>

\* The indices idx > 0 of a slice whose segment does not start where the
\* previous one ended (1-based here).
Discontinuities(slice) ==
    {idx \in 2..Len(slice.segments) :
        slice.segments[idx - 1].toIata # slice.segments[idx].fromIata}

\* Rule 4 pushing the code once however many connections are broken
\* (variant for C9).
SegmentConnectionCodes_Once(o) ==
    IF \E i \in 1..Len(o.slices) : Discontinuities(o.slices[i]) # {}
    THEN <<"INVALID_SEGMENT_CONNECTION">>
    ELSE <<>>

\* Rule 4, segment continuity: one code per discontinuity, slice by slice.
SegmentConnectionCodes(o) ==
    Repeat("INVALID_SEGMENT_CONNECTION",
           SumSeq([i \in 1..Len(o.slices) |-> Cardinality(Discontinuities(o.slices[i]))]))

\* The reasons array after the four rules, in the order they push.
HardRuleReasons(o) ==
    CarrierForDistanceCodes(o) \o HardPriceCodes(o) \o RoundTripCodes(o)
        \o SegmentConnectionCodes(o)

\* if (reasons.length > 0) { status, reasonCodes, confidence = ... }
Quarantine(validation, reasons) ==
    IF Len(reasons) > 0
    THEN [status |-> "QUARANTINED", reasonCodes |-> reasons, confidence |-> "LOW"]
    ELSE validation

\* The soft check without its allow-list (variant for C10).
SoftOutlierCheck_NoAllowList(validation, price, dest) ==
    IF price < SoftOutlierPrice
    THEN [validation EXCEPT !.confidence = "MEDIUM"]
    ELSE validation

\* Outlier soft check.
SoftOutlierCheck(validation, price, dest) ==
    IF price < SoftOutlierPrice /\ dest \notin PlausiblyCheapDests
    THEN [validation EXCEPT !.confidence = "MEDIUM"]
    ELSE validation

\* validateOffer: what the call leaves behind. threw = TRUE is the TypeError
\* of the airline read, raised before anything is written to the offer.
validateOffer(o) ==
    IF AirlineReadThrows(o)
    THEN [threw |-> TRUE, offer |-> o]
    ELSE [threw |-> FALSE,
          offer |-> [o EXCEPT !.validation =
                        SoftOutlierCheck(Quarantine(o.validation, HardRuleReasons(o)),
                                         o.price.totalPHP, o.destinationIata)]]

---------------------------------------------------------------------------
(* The raw offers the pipeline is driven with *)

\* Base prices in cents. With one adult they display as 4000, 4999, 5000,
\* 8468 (the generator's faulty $150), 14999, 15000 and 39515 PHP: both
\* sides of the soft floor and of the hard floor.
BasePrices == {7086, 8856, 8857, 15000, 26571, 26572, 70000}

\* A long-haul pair, the plausibly-cheap pair, and ordinary destinations.
Dests == {"SFO", "LHR", "SIN", "HKG", "BKK", "MAN"}

Carriers == {"PR", "5J", "AK", "SQ"}

\* One leg of a slice between the offer's two airports: "out" flies
\* origin -> destination, "back" flies destination -> origin.
Legs == {"out", "back"}

LegSegment(leg, carrier, origin, dest) ==
    IF leg = "out" THEN Segment(carrier, origin, dest) ELSE Segment(carrier, dest, origin)

\* The slice flying the given legs in order; stopsCount is
\* segments.length - 1 and every segment lasts 200 minutes.
LegSlice(direction, legs, carrier, origin, dest) ==
    Slice(direction,
          [i \in 1..Len(legs) |-> LegSegment(legs[i], carrier, origin, dest)],
          Len(legs) - 1, 200 * Len(legs))

\* Slice lists of 0, 1 or 2 slices, each of 0..MaxSegments legs. Zero
\* slices, a single slice and a slice without segments are the shapes the
\* OfferCanonical type admits before validation.
SliceShapes == SeqsUpTo(SeqsUpTo(Legs, MaxSegments), RoundTripSlices)

RawOffer(dest, carrier, price, passengers, shape) ==
    [origin |-> "MNL", dest |-> dest, departMonth |-> 0, passengers |-> passengers,
     basePriceUsd |-> price,
     slices |-> [i \in 1..Len(shape) |->
                    LegSlice(IF i = 1 THEN "outbound" ELSE "inbound", shape[i],
                             carrier, "MNL", dest)]]

\* Every shape, destination, carrier and price, for one adult.
ShapedRawOffers ==
    {RawOffer(d, c, b, DefaultPassengers, sh) :
        d \in Dests, c \in Carriers, b \in BasePrices, sh \in SliceShapes}

\* Every passenger mix and price, on a plain round trip.
PassengerRawOffers ==
    {RawOffer("SFO", "PR", b, p, <<(<<"out">>), (<<"back">>)>>) :
        b \in BasePrices, p \in PassengerMixes}

RawOffers == ShapedRawOffers \cup PassengerRawOffers

---------------------------------------------------------------------------
(* Spec: one raw offer through normalizeOffer and validateOffer *)

PipelineIdle ==
    /\ pc = "idle"
    /\ raw = NoOffer
    /\ offer = NoOffer
    /\ threw = FALSE

EngineOff ==
    /\ epc = "off"
    /\ diversify = FALSE
    /\ month = 0
    /\ countryIdx = 1
    /\ candidates = <<>>
    /\ validOffers = <<>>
    /\ countryUsage = <<>>
    /\ allMonthsRecs = <<>>

ScoreOff ==
    /\ spc = "off"
    /\ scoredOffers = <<>>
    /\ scores = <<>>

CallsOff ==
    /\ calls = <<>>
    /\ running = 0

TrendOff ==
    /\ tpc = "off"
    /\ destIata = ""
    /\ trendMonth = 0
    /\ valid = NoOffer
    /\ series = <<>>

\* useState(null), useState(""), useState([]); no card clicked.
ClicksOff ==
    /\ selectedRec = NoOffer
    /\ insight = ""
    /\ trendData = <<>>
    /\ clicks = <<>>

\* useState([]) filled by the first build; useState(null); no dialog mounted.
VerifyOff ==
    /\ recs = <<>>
    /\ verifyTarget = NoOffer
    /\ step = "start"
    /\ gfPrice = ""
    /\ now = 0
    /\ trail = <<>>
    /\ emitted = NoOffer

\* Lines 481-489: useState of the query, one adult.
SelectorOff ==
    query = [passengers |-> DefaultPassengers]

\* No offer generated yet.
DatesOff ==
    /\ sample = NoOffer
    /\ generated = NoOffer

\* Each specification starts with the variables of the others at rest.
NonPipelineOff ==
    EngineOff /\ ScoreOff /\ CallsOff /\ TrendOff /\ ClicksOff /\ VerifyOff /\
    SelectorOff /\ DatesOff
NonEngineOff ==
    PipelineIdle /\ ScoreOff /\ CallsOff /\ TrendOff /\ ClicksOff /\ VerifyOff /\
    SelectorOff /\ DatesOff
NonScoreOff ==
    PipelineIdle /\ EngineOff /\ CallsOff /\ TrendOff /\ ClicksOff /\ VerifyOff /\
    SelectorOff /\ DatesOff
NonCallsOff ==
    PipelineIdle /\ EngineOff /\ ScoreOff /\ TrendOff /\ ClicksOff /\ VerifyOff /\
    SelectorOff /\ DatesOff
NonTrendOff ==
    PipelineIdle /\ EngineOff /\ ScoreOff /\ CallsOff /\ ClicksOff /\ VerifyOff /\
    SelectorOff /\ DatesOff
NonClicksOff ==
    PipelineIdle /\ EngineOff /\ ScoreOff /\ CallsOff /\ TrendOff /\ VerifyOff /\
    SelectorOff /\ DatesOff
NonVerifyOff ==
    PipelineIdle /\ EngineOff /\ ScoreOff /\ CallsOff /\ TrendOff /\ ClicksOff /\
    SelectorOff /\ DatesOff
NonSelectorOff ==
    PipelineIdle /\ EngineOff /\ ScoreOff /\ CallsOff /\ TrendOff /\ ClicksOff /\
    VerifyOff /\ DatesOff
NonDatesOff ==
    PipelineIdle /\ EngineOff /\ ScoreOff /\ CallsOff /\ TrendOff /\ ClicksOff /\
    VerifyOff /\ SelectorOff

Init ==
    /\ pc = "raw"
    /\ raw \in RawOffers
    /\ offer = NoOffer
    /\ threw = FALSE
    /\ NonPipelineOff

\* const normalized = this.normalizeOffer(raw)
Normalize ==
    /\ pc = "raw"
    /\ offer' = normalizeOffer(raw)
    /\ pc' = "normalized"
    /\ UNCHANGED <<raw, threw>>
    /\ UNCHANGED nonPipelineVars

\* const validated = this.validateOffer(normalized)
Validate ==
    /\ pc = "normalized"
    /\ offer' = validateOffer(offer).offer
    /\ threw' = validateOffer(offer).threw
    /\ pc' = "validated"
    /\ UNCHANGED raw
    /\ UNCHANGED nonPipelineVars

Next == Normalize \/ Validate

Spec == Init /\ [][Next]_vars

---------------------------------------------------------------------------
(* RevalidateSpec: validateOffer on an offer that already has a verdict *)

\* The verdicts an OfferCanonical may carry before the call: the preset of
\* normalizeOffer, and any other status and confidence.
PriorVerdicts ==
    {[status |-> "VALID", reasonCodes |-> <<>>, confidence |-> c] :
        c \in {"LOW", "MEDIUM", "HIGH"}}
    \cup {[status |-> "QUARANTINED", reasonCodes |-> <<"MISSING_INBOUND_SLICE">>,
           confidence |-> c] : c \in {"LOW", "MEDIUM", "HIGH"}}

\* A plain round trip, an outbound slice alone, and a round trip whose
\* outbound connection is broken, for every destination, carrier and price.
RevalidateRawOffers ==
    {RawOffer(d, c, b, DefaultPassengers, sh) :
        d \in Dests, c \in Carriers, b \in BasePrices,
        sh \in { <<(<<"out">>), (<<"back">>)>>, <<(<<"out">>)>>,
                 <<(<<"out", "out">>), (<<"back">>)>> }}

RevalidateInit ==
    /\ pc = "normalized"
    /\ raw \in RevalidateRawOffers
    /\ \E verdict \in PriorVerdicts :
          offer = [normalizeOffer(raw) EXCEPT !.validation = verdict]
    /\ threw = FALSE
    /\ NonPipelineOff

\* this.validateOffer(offer), on the offer as the call before left it.
Revalidate ==
    /\ pc \in {"normalized", "validated"}
    /\ ~threw
    /\ offer' = validateOffer(offer).offer
    /\ threw' = validateOffer(offer).threw
    /\ pc' = "validated"
    /\ UNCHANGED raw
    /\ UNCHANGED nonPipelineVars

RevalidateNext == Revalidate

RevalidateSpec == RevalidateInit /\ [][RevalidateNext]_vars

---------------------------------------------------------------------------
(* calculateOfferScore *)

\* A score is held multiplied by 100 * 50000 * 3 = 15,000,000:
\*   PRICE_WEIGHT * (p / 50000) + QUALITY_WEIGHT * (stops * 5 + duration / 600)
\* becomes 3 * PRICE_WEIGHT * p + 250 * QUALITY_WEIGHT * (3000 * stops + duration).
\* offer.slices[1]?.x || 0 is 0 when there is no second slice.

\* The score with the inbound slice left out of the quality term (variant
\* for C11).
calculateOfferScore_OutboundOnly(o) ==
    3 * PRICE_WEIGHT * o.price.totalPHP
        + 250 * QUALITY_WEIGHT * (3000 * o.slices[1].stopsCount + o.slices[1].totalDurationMin)

\* Lines 201-211.
calculateOfferScore(o) ==
    LET p == o.price.totalPHP
        stops == o.slices[1].stopsCount
                    + (IF Len(o.slices) >= 2 THEN o.slices[2].stopsCount ELSE 0)
        duration == o.slices[1].totalDurationMin
                    + (IF Len(o.slices) >= 2 THEN o.slices[2].totalDurationMin ELSE 0)
    IN  3 * PRICE_WEIGHT * p + 250 * QUALITY_WEIGHT * (3000 * stops + duration)

---------------------------------------------------------------------------
(* ScoreSpec: calculateOfferScore applied to two offers *)

\* The slices an offer to score can have: stops and duration vary
\* independently, on one slice or on two.
ScoredSlices(direction) ==
    {Slice(direction, <<Segment("PR", "MNL", "SIN")>>, stops, duration) :
        stops \in {0, 1}, duration \in {200, 900}}

\* The offers handed to calculateOfferScore: three prices, every slice.
ScoredOffers ==
    {normalizeOffer([origin |-> "MNL", dest |-> "SIN", departMonth |-> 0,
                     passengers |-> DefaultPassengers, basePriceUsd |-> b,
                     slices |-> sl]) :
        b \in {20000, 70000, 90000},
        sl \in {<<out>> : out \in ScoredSlices("outbound")}
                 \cup {<<out, back>> : out \in ScoredSlices("outbound"),
                                       back \in ScoredSlices("inbound")}}

ScoreInit ==
    /\ NonScoreOff
    /\ spc = "offers"
    /\ scoredOffers \in ScoredOffers \X ScoredOffers
    /\ scores = <<>>

\* const score = this.calculateOfferScore(offer), for each of the two
ScoreOffers ==
    /\ spc = "offers"
    /\ scores' = <<calculateOfferScore(scoredOffers[1]), calculateOfferScore(scoredOffers[2])>>
    /\ spc' = "scored"
    /\ UNCHANGED scoredOffers
    /\ UNCHANGED nonScoreVars

ScoreNext == ScoreOffers

ScoreSpec == ScoreInit /\ [][ScoreNext]_vars

---------------------------------------------------------------------------
(* generateRawMockOffers *)

\* The build scans these two of the twelve COUNTRIES, in the table's order:
\* one with a plausibly-cheap airport, one with a long-haul and an ordinary
\* airport.
COUNTRIES == <<"SG", "GB">>

COUNTRY_AIRPORTS(code) ==
    CASE code = "SG" -> {"SIN"}
      [] code = "GB" -> {"LHR", "MAN"}
      [] OTHER -> {}

\* const isLongHaul = [...].includes(destIata)
IsLongHaul(dest) == dest \in {"SFO", "LAX", "JFK", "LHR", "CDG", "FCO"}

\* Carrier codes the generator draws: PR (the default) and 5J. The carrier
\* is read by rule 1 alone, on long-haul routes; elsewhere one code stands
\* for all.
MockCarriers(dest) == IF IsLongHaul(dest) THEN {"PR", "5J"} ELSE {"PR"}

\* Base prices (cents) the generator draws: 200 + random * 800, or
\* 700 + random * 1000 on a long-haul route.
MockBasePrices(dest) == IF IsLongHaul(dest) THEN {70000} ELSE {20000, 90000}

\* One offer of generateRawMockOffers: an outbound and an inbound slice of
\* one segment each.
MockRawOffer(m, dest, carrier, price) ==
    LET dur == IF IsLongHaul(dest) THEN 900 ELSE 200
        stops == IF IsLongHaul(dest) THEN 1 ELSE 0
    IN  [origin |-> "MNL", dest |-> dest, departMonth |-> m,
         passengers |-> DefaultPassengers, basePriceUsd |-> price,
         slices |-> << Slice("outbound", <<Segment(carrier, "MNL", dest)>>, stops, dur),
                       Slice("inbound", <<Segment(carrier, dest, "MNL")>>, stops, dur) >>]

\* What generateRawMockOffers can return for one airport: any carrier and
\* price, or on a long-haul route the injected fault ($150 flown by 5J).
MockRawOffers(m, dest) ==
    {MockRawOffer(m, dest, c, b) : c \in MockCarriers(dest), b \in MockBasePrices(dest)}
        \cup (IF IsLongHaul(dest) THEN {MockRawOffer(m, dest, "5J", 15000)} ELSE {})

\* The raw offers of one country in one month.
CountryRawOffers(m, code) == UNION {MockRawOffers(m, d) : d \in COUNTRY_AIRPORTS(code)}

---------------------------------------------------------------------------
(* getMonthlyRecommendations *)

\* The month loop runs this many months (12 in the source).
NumMonths == 3

\* Raw offers one country receives in one month, over its sample days and
\* airports (the source asks for 3 per day and airport).
MaxOffers == 2

\* The diversification cap: (countryUsage[code] || 0) < 2.
DiversifyCap == 2

\* countryUsage[code] || 0
UsageOf(usage, code) == IF code \in DOMAIN usage THEN usage[code] ELSE 0

\* The offers pushed to validOffers, with every offer kept whatever its
\* verdict (variant for C4).
ValidOffers_Unfiltered(raws) ==
    [i \in 1..Len(raws) |-> validateOffer(normalizeOffer(raws[i])).offer]

\* Lines 35-42: normalize and validate each raw offer, keep the VALID ones.
ValidOffers(raws) ==
    LET validated == [i \in 1..Len(raws) |-> validateOffer(normalizeOffer(raws[i])).offer]
    IN  SelectSeq(validated, LAMBDA o : o.validation.status = "VALID")

\* Some raw offer makes validateOffer throw: the build rejects.
AnyThrows(raws) == \E i \in 1..Len(raws) : validateOffer(normalizeOffer(raws[i])).threw

\* [...xs].sort((a, b) => key(a) - key(b))[0]: Array.prototype.sort is
\* stable, so the head of the sorted copy is the first element of minimum
\* key. keys[i] is the key of xs[i].
FirstMinIndex(keys) ==
    CHOOSE i \in 1..Len(keys) :
        /\ \A j \in 1..Len(keys) : keys[i] <= keys[j]
        /\ \A j \in 1..(i - 1) : keys[j] > keys[i]

\* The candidate with the cheapest offer recommended too, no score compared
\* (variant for C12).
CountryCandidate_RecommendsCheapest(code, offers) ==
    LET cheapest == offers[FirstMinIndex([i \in 1..Len(offers) |-> offers[i].price.totalPHP])]
    IN  [country |-> code, cheapest |-> cheapest, recommended |-> cheapest,
         score |-> calculateOfferScore(cheapest)]

\* The candidate with the price sort reversed (b - a): its cheapest offer is
\* the first of the most expensive (variant for C27).
CountryCandidate_PriceDescending(code, offers) ==
    LET cheapest == offers[FirstMinIndex(
                        [i \in 1..Len(offers) |-> 0 - offers[i].price.totalPHP])]
        recommended == offers[FirstMinIndex(
                        [i \in 1..Len(offers) |-> calculateOfferScore(offers[i])])]
    IN  [country |-> code, cheapest |-> cheapest, recommended |-> recommended,
         score |-> calculateOfferScore(recommended)]

\* Lines 48-57: the candidate a country with valid offers contributes.
CountryCandidate(code, offers) ==
    LET cheapest == offers[FirstMinIndex(
                        [i \in 1..Len(offers) |-> offers[i].price.totalPHP])]
        recommended == offers[FirstMinIndex(
                        [i \in 1..Len(offers) |-> calculateOfferScore(offers[i])])]
    IN  [country |-> code, cheapest |-> cheapest, recommended |-> recommended,
         score |-> calculateOfferScore(recommended)]

\* candidates.sort((a, b) => a.score - b.score), stable: c goes behind the
\* elements of the sorted prefix whose score is not larger.
InsertByScore(c, sorted) ==
    LET k == Cardinality({i \in 1..Len(sorted) : sorted[i].score <= c.score})
    IN  SubSeq(sorted, 1, k) \o <<c>> \o SubSeq(sorted, k + 1, Len(sorted))

RECURSIVE SortByScoreUpTo(_, _)
SortByScoreUpTo(cands, n) ==
    IF n = 0 THEN <<>> ELSE InsertByScore(cands[n], SortByScoreUpTo(cands, n - 1))

SortByScore(cands) == SortByScoreUpTo(cands, Len(cands))

\* The winner always taken from the head of the sorted list, the usage
\* counter ignored (variant for C3).
Winner_IgnoresUsage(sorted, usage, div) == sorted[1]

\* The winner with a country still open at the cap itself: usage <= 2
\* (variant for C13).
Winner_CapInclusive(sorted, usage, div) ==
    LET open == {i \in 1..Len(sorted) : UsageOf(usage, sorted[i].country) <= DiversifyCap}
    IN  IF div /\ open # {}
        THEN sorted[CHOOSE i \in open : \A j \in open : i <= j]
        ELSE sorted[1]

\* Lines 63-72: the winner among the sorted candidates.
Winner(sorted, usage, div) ==
    LET open == {i \in 1..Len(sorted) : UsageOf(usage, sorted[i].country) < DiversifyCap}
    IN  IF div /\ open # {}
        THEN sorted[CHOOSE i \in open : \A j \in open : i <= j]
        ELSE sorted[1]

\* countryUsage[code] = (countryUsage[code] || 0) + 1
Increment(usage, code) ==
    [c \in DOMAIN usage \cup {code} |-> IF c = code THEN UsageOf(usage, code) + 1 ELSE usage[c]]

\* Lines 26-43, for month m and the i-th country: what the scan of the
\* country's raw offers leaves, over every list of raw offers the source can
\* hand it (its sample days and airports together).
CountryScans ==
    [m \in 0..(NumMonths - 1) |->
        [i \in 1..Len(COUNTRIES) |->
            {[threw |-> AnyThrows(raws), validOffers |-> ValidOffers(raws)] :
                raws \in SeqsUpTo(CountryRawOffers(m, COUNTRIES[i]), MaxOffers)}]]

\* Lines 20-23: a call starts with an empty list and an empty counter.
EngineInit ==
    /\ NonEngineOff
    /\ epc = "months"
    /\ diversify \in BOOLEAN
    /\ month = 0
    /\ countryIdx = 1
    /\ candidates = <<>>
    /\ validOffers = <<>>
    /\ countryUsage = <<>>
    /\ allMonthsRecs = <<>>

\* One turn of the loop over COUNTRIES (lines 26-58): the country's raw
\* offers of the month, over its sample days and airports, are normalized
\* and validated; a country left without a VALID offer adds no candidate.
ScanCountry ==
    /\ epc = "months"
    /\ month < NumMonths
    /\ countryIdx <= Len(COUNTRIES)
    /\ \E scan \in CountryScans[month][countryIdx] :
          IF scan.threw
          THEN /\ epc' = "threw"
               /\ UNCHANGED <<countryIdx, candidates, validOffers>>
          ELSE /\ epc' = epc
               /\ countryIdx' = countryIdx + 1
               /\ validOffers' = scan.validOffers
               /\ candidates' =
                     IF validOffers' = <<>>
                     THEN candidates
                     ELSE Append(candidates,
                                 CountryCandidate(COUNTRIES[countryIdx], validOffers'))
    /\ UNCHANGED <<diversify, month, countryUsage, allMonthsRecs>>
    /\ UNCHANGED nonEngineVars

\* The month without a candidate not skipped: candidates[0] is undefined and
\* reading winner.country throws (variant for C14).
SkipMonth_Throws ==
    /\ epc = "months"
    /\ month < NumMonths
    /\ countryIdx > Len(COUNTRIES)
    /\ candidates = <<>>
    /\ epc' = "threw"
    /\ UNCHANGED <<diversify, month, countryIdx, candidates, validOffers, countryUsage,
                   allMonthsRecs>>
    /\ UNCHANGED nonEngineVars

\* Line 60: if (candidates.length === 0) continue.
SkipMonth ==
    /\ epc = "months"
    /\ month < NumMonths
    /\ countryIdx > Len(COUNTRIES)
    /\ candidates = <<>>
    /\ month' = month + 1
    /\ countryIdx' = 1
    /\ validOffers' = <<>>
    /\ UNCHANGED <<epc, diversify, candidates, countryUsage, allMonthsRecs>>
    /\ UNCHANGED nonEngineVars

\* Lines 62-82: sort the candidates, pick the winner, count it, emit the
\* month's recommendation.
SelectWinner ==
    /\ epc = "months"
    /\ month < NumMonths
    /\ countryIdx > Len(COUNTRIES)
    /\ candidates # <<>>
    /\ \E winner \in {Winner(SortByScore(candidates), countryUsage, diversify)} :
           /\ countryUsage' = Increment(countryUsage, winner.country)
           /\ allMonthsRecs' = Append(allMonthsRecs,
                                  [month |-> month, country |-> winner.country,
                                   cheapest |-> winner.cheapest,
                                   recommended |-> winner.recommended])
    /\ month' = month + 1
    /\ countryIdx' = 1
    /\ candidates' = <<>>
    /\ validOffers' = <<>>
    /\ UNCHANGED <<epc, diversify>>
    /\ UNCHANGED nonEngineVars

\* Line 85: return allMonthsRecs.
Return ==
    /\ epc = "months"
    /\ month = NumMonths
    /\ epc' = "done"
    /\ UNCHANGED <<diversify, month, countryIdx, candidates, validOffers, countryUsage,
                   allMonthsRecs>>
    /\ UNCHANGED nonEngineVars

EngineNext == ScanCountry \/ SkipMonth \/ SelectWinner \/ Return

EngineSpec == EngineInit /\ [][EngineNext]_vars

---------------------------------------------------------------------------
(* CallsSpec: two getMonthlyRecommendations calls on one provider *)

\* The calls: the effect of App re-runs the build while an earlier one may
\* still be waiting on its timer.
CallIds == {1, 2}

\* What the raw-offer source hands one call for month m, country by country
\* in the order of COUNTRIES: nothing at all; an SG and a GB offer, SG
\* scoring lower; a GB offer alone.
MonthRawOffers(m) ==
    { << <<>>, <<>> >>,
      << <<MockRawOffer(m, "SIN", "PR", 20000)>>, <<MockRawOffer(m, "MAN", "PR", 90000)>> >>,
      << <<>>, <<MockRawOffer(m, "LHR", "PR", 70000)>> >> }

\* Lines 26-58 for one month: the candidates of the countries left with a
\* VALID offer, in the order of COUNTRIES.
RECURSIVE MonthCandidates(_, _)
MonthCandidates(rawsByCountry, n) ==
    IF n = 0 THEN <<>>
    ELSE LET offers == ValidOffers(rawsByCountry[n])
             before == MonthCandidates(rawsByCountry, n - 1)
         IN  IF offers = <<>> THEN before
             ELSE Append(before, CountryCandidate(COUNTRIES[n], offers))

\* Lines 23-83, one turn of the month loop on a call's own locals.
MonthTurn(call, rawsByCountry) ==
    LET cands == MonthCandidates(rawsByCountry, Len(COUNTRIES))
        winner == Winner(SortByScore(cands), call.countryUsage, call.diversify)
        turned == [call EXCEPT !.month = call.month + 1,
                               !.rawOffers = Append(call.rawOffers, rawsByCountry)]
    IN  IF cands = <<>> THEN turned
        ELSE [turned EXCEPT
                !.countryUsage = Increment(call.countryUsage, winner.country),
                !.allMonthsRecs = Append(call.allMonthsRecs,
                                     [month |-> call.month, country |-> winner.country,
                                      cheapest |-> winner.cheapest,
                                      recommended |-> winner.recommended])]

\* The counter a call would start from were it a field of the provider, kept
\* from the build before (variant for C15).
CountryUsageAtStart_OfProvider(cs, c) ==
    IF \E d \in CallIds \ {c} : cs[d].cpc = "done"
    THEN cs[CHOOSE d \in CallIds \ {c} : cs[d].cpc = "done"].countryUsage
    ELSE <<>>

\* Line 21: const countryUsage: Record<string, number> = {}.
CountryUsageAtStart(cs, c) == <<>>

CallsInit ==
    /\ NonCallsOff
    /\ calls = [c \in CallIds |->
                  [cpc |-> "idle", diversify |-> FALSE, month |-> 0, countryUsage |-> <<>>,
                   allMonthsRecs |-> <<>>, rawOffers |-> <<>>]]
    /\ running = 0

\* Lines 17-18: the call is made and waits on its timer.
InvokeCall(c) ==
    /\ calls[c].cpc = "idle"
    /\ \E div \in BOOLEAN :
          calls' = [calls EXCEPT ![c].cpc = "waiting", ![c].diversify = div]
    /\ UNCHANGED running
    /\ UNCHANGED nonCallVars

\* Lines 18-21: the timer fires while nothing else runs; the call creates
\* its list and its counter.
ResumeCall(c) ==
    /\ running = 0
    /\ calls[c].cpc = "waiting"
    /\ calls' = [calls EXCEPT ![c].cpc = "months",
                               ![c].allMonthsRecs = <<>>,
                               ![c].countryUsage = CountryUsageAtStart(calls, c)]
    /\ running' = c
    /\ UNCHANGED nonCallVars

\* Lines 23-83: one month of the running call (nothing awaits inside the
\* loop, so no other call runs in between).
CallMonth(c) ==
    /\ running = c
    /\ calls[c].cpc = "months"
    /\ calls[c].month < NumMonths
    /\ \E rawsByCountry \in MonthRawOffers(calls[c].month) :
          calls' = [calls EXCEPT ![c] = MonthTurn(calls[c], rawsByCountry)]
    /\ UNCHANGED running
    /\ UNCHANGED nonCallVars

\* Line 85: return allMonthsRecs.
CallReturn(c) ==
    /\ running = c
    /\ calls[c].cpc = "months"
    /\ calls[c].month = NumMonths
    /\ calls' = [calls EXCEPT ![c].cpc = "done"]
    /\ running' = 0
    /\ UNCHANGED nonCallVars

CallsNext ==
    \E c \in CallIds : InvokeCall(c) \/ ResumeCall(c) \/ CallMonth(c) \/ CallReturn(c)

CallsSpec == CallsInit /\ [][CallsNext]_vars

---------------------------------------------------------------------------
(* TrendSpec: one getYearlyTrend call *)

\* verified: null
Null == "null"

\* String(n) for 0 <= n < 100.
DecimalString(n) ==
    LET digit == <<"0", "1", "2", "3", "4", "5", "6", "7", "8", "9">>
    IN  (IF n >= 10 THEN digit[(n \div 10) + 1] ELSE "") \o digit[(n % 10) + 1]

\* `2026-${String(month + 1).padStart(2, '0')}`
MonthKey(m) ==
    LET text == DecimalString(m + 1)
    IN  "2026-" \o (IF Len(text) < 2 THEN "0" \o text ELSE text)

\* The point with the premium cut off, Math.floor for Math.round (variant
\* for C17).
TrendPoint_Truncates(m, v) ==
    [month |-> MonthKey(m), cheapest |-> v.price.totalPHP,
     recommended |-> (11 * v.price.totalPHP) \div 10,
     verified |-> Null, confidence |-> v.validation.confidence]

\* Lines 97-105: the point pushed for month m from the validated sample v
\* (monthName and updatedAt are not modelled). Math.round(p * 1.1) is
\* round-half-up of 11 p / 10.
TrendPoint(m, v) ==
    [month |-> MonthKey(m), cheapest |-> v.price.totalPHP,
     recommended |-> RoundDiv(11 * v.price.totalPHP, 10),
     verified |-> Null, confidence |-> v.validation.confidence]

\* Line 89 has resolved; line 91: const series = [].
TrendInit ==
    /\ NonTrendOff
    /\ tpc = "months"
    /\ destIata \in {"SIN", "MAN", "LHR"}
    /\ trendMonth = 0
    /\ valid = NoOffer
    /\ series = <<>>

\* Lines 93-106, one month: the first offer of the list the source returns
\* for day 15 is normalized, validated and plotted whatever its verdict. Of
\* an empty list the first element is undefined, and normalizeOffer throws
\* reading raw.passengers.
TrendMonth ==
    /\ tpc = "months"
    /\ trendMonth < NumMonths
    /\ \E rawOffers \in SeqsUpTo(MockRawOffers(trendMonth, destIata), MaxOffers) :
          IF rawOffers = <<>> \/ validateOffer(normalizeOffer(rawOffers[1])).threw
          THEN /\ tpc' = "threw"
               /\ UNCHANGED <<trendMonth, valid, series>>
          ELSE /\ valid' = validateOffer(normalizeOffer(rawOffers[1])).offer
               /\ series' = Append(series, TrendPoint(trendMonth, valid'))
               /\ trendMonth' = trendMonth + 1
               /\ tpc' = tpc
    /\ UNCHANGED destIata
    /\ UNCHANGED nonTrendVars

\* Line 108: return series.
TrendReturn ==
    /\ tpc = "months"
    /\ trendMonth = NumMonths
    /\ tpc' = "done"
    /\ UNCHANGED <<destIata, trendMonth, valid, series>>
    /\ UNCHANGED nonTrendVars

TrendNext == TrendMonth \/ TrendReturn

TrendSpec == TrendInit /\ [][TrendNext]_vars

---------------------------------------------------------------------------
(* getTravelInsight *)

\* What ai.models.generateContent can come to for a request about rec: it
\* rejects, or it resolves with a response whose text is missing, empty, or
\* a text about the request.
InsightResponses(rec) ==
    { [kind |-> "rejected"],
      [kind |-> "resolved"],
      [kind |-> "resolved", text |-> ""],
      [kind |-> "resolved", text |-> "Insight for " \o rec.country \o " " \o MonthKey(rec.month)] }

\* The text of the response returned as it is, empty or missing too
\* (variant for C18).
getTravelInsight_NoDefault(response) ==
    IF response.kind = "rejected"
    THEN "Great value for this destination during this time of year."
    ELSE IF "text" \in DOMAIN response THEN response.text ELSE ""

\* geminiService, lines 7-22: try { return response.text || default }
\* catch { return fallback }.
getTravelInsight(response) ==
    IF response.kind = "rejected"
    THEN "Great value for this destination during this time of year."
    ELSE IF "text" \in DOMAIN response /\ response.text # ""
         THEN response.text
         ELSE "A perfect balance of cost and experience for this season."

---------------------------------------------------------------------------
(* RecClickSpec: handleRecClick, any number of runs in flight *)

\* A month card opened at most this many times.
MaxClicks == 2

\* The recommendations on the home view: month 0 to SG, month 1 to GB.
AppRecs ==
    LET sin == validateOffer(normalizeOffer(MockRawOffer(0, "SIN", "PR", 20000))).offer
        man == validateOffer(normalizeOffer(MockRawOffer(1, "MAN", "PR", 90000))).offer
    IN  << [month |-> 0, country |-> "SG", cheapest |-> sin, recommended |-> sin,
            lastRefreshed |-> "t0"],
           [month |-> 1, country |-> "GB", cheapest |-> man, recommended |-> man,
            lastRefreshed |-> "t0"] >>

\* Lines 502-505: the synchronous head of handleRecClick, up to the call of
\* getYearlyTrend (the view switch is not modelled).
RecClick(rec) ==
    /\ Len(clicks) < MaxClicks
    /\ selectedRec' = rec
    /\ insight' = "Analyzing destination signals..."
    /\ clicks' = Append(clicks, [rec |-> rec, at |-> "trend", response |-> NoOffer,
                                  text |-> ""])
    /\ UNCHANGED trendData
    /\ UNCHANGED nonClickVars

\* Lines 505-507: getYearlyTrend resolves for the run that has waited
\* longest (the 600 ms timers fire in the order they were set), its trend
\* is displayed and its insight request is sent.
TrendResolves ==
    /\ \E i \in DOMAIN clicks :
          /\ clicks[i].at = "trend"
          /\ \A j \in 1..(i - 1) : clicks[j].at # "trend"
          /\ trendData' = [request |-> i,
                            destIata |-> clicks[i].rec.recommended.destinationIata]
          /\ clicks' = [clicks EXCEPT ![i].at = "insight"]
    /\ UNCHANGED <<selectedRec, insight>>
    /\ UNCHANGED nonClickVars

\* Lines 507-508: the insight request of run i settles, in any order
\* among the requests in flight, and its text is displayed.
InsightSettles(i) ==
    /\ clicks[i].at = "insight"
    /\ \E response \in InsightResponses(clicks[i].rec) :
          /\ clicks' = [clicks EXCEPT ![i].at = "done", ![i].response = response,
                                       ![i].text = getTravelInsight(response)]
          /\ insight' = getTravelInsight(response)
    /\ UNCHANGED <<selectedRec, trendData>>
    /\ UNCHANGED nonClickVars

RecClickInit ==
    /\ NonClicksOff
    /\ ClicksOff

RecClickNext ==
    \/ \E i \in DOMAIN AppRecs : RecClick(AppRecs[i])
    \/ TrendResolves
    \/ \E i \in DOMAIN clicks : InsightSettles(i)

RecClickSpec == RecClickInit /\ [][RecClickNext]_vars

---------------------------------------------------------------------------
(* VerifySpec: VerifyDialog and handleVerifyConfirm *)

\* Confirmations submitted at most this many times.
MaxConfirms == 2

\* An optional number: undefined is the empty tuple, the number n is <<n>>.
Undefined == <<>>

\* x || y on optional numbers: undefined and 0 are falsy.
OrElse(x, y) == IF x = Undefined \/ x = <<0>> THEN y ELSE x

\* Number(gfPrice) for the texts typed into the price input; the empty
\* input converts to 0.
Number(text) ==
    CASE text = "" -> 0
      [] text = "4000" -> 4000
      [] text = "52000" -> 52000

\* r.verifiedPrice, undefined on a recommendation never verified.
VerifiedPriceOf(r) == IF "verifiedPrice" \in DOMAIN r THEN r.verifiedPrice ELSE Undefined

\* Lines 233-249: the report handleFinalSubmit hands to onConfirm (the fields
\* copied from the offer are not modelled).
VerificationReport(type, dialogStep, seenPrice, createdAt) ==
    [offerType |-> type, gfPriceSeenPhp |-> seenPrice,
     gfSameDatesConfirmed |-> (dialogStep = "match-price"),
     gfPrefillFailed |-> (dialogStep = "failed-prefill"),
     createdAt |-> createdAt]

\* handleVerifyConfirm with the month test of line 514 left out: every
\* recommendation takes the verified fields.
handleVerifyConfirm_EveryMonth(prev, target, report) ==
    [i \in DOMAIN prev |->
        LET verified ==
                [isUserVerified |-> report.gfSameDatesConfirmed,
                 verifiedType |-> target.type,
                 verifiedPrice |-> OrElse(report.gfPriceSeenPhp, VerifiedPriceOf(prev[i])),
                 verifiedAt |-> report.createdAt]
        IN  [f \in DOMAIN prev[i] \cup DOMAIN verified |->
                IF f \in DOMAIN verified THEN verified[f] ELSE prev[i][f]]]

\* Lines 513-520: setRecs(prev => prev.map(...)), the spread { ...r, ... }
\* on the recommendation of the target's month.
handleVerifyConfirm(prev, target, report) ==
    [i \in DOMAIN prev |->
        IF prev[i].month = target.rec.month
        THEN LET verified ==
                    [isUserVerified |-> report.gfSameDatesConfirmed,
                     verifiedType |-> target.type,
                     verifiedPrice |-> OrElse(report.gfPriceSeenPhp, VerifiedPriceOf(prev[i])),
                     verifiedAt |-> report.createdAt]
             IN  [f \in DOMAIN prev[i] \cup DOMAIN verified |->
                     IF f \in DOMAIN verified THEN verified[f] ELSE prev[i][f]]
        ELSE prev[i]]

VerifyInit ==
    /\ NonVerifyOff
    /\ recs = AppRecs
    /\ verifyTarget = NoOffer
    /\ step = "start"
    /\ gfPrice = ""
    /\ now = 0
    /\ trail = <<>>
    /\ emitted = NoOffer

\* s with e appended unless it is there already.
Visit(s, e) == IF \E i \in DOMAIN s : s[i] = e THEN s ELSE Append(s, e)

\* Lines 574, 619-620, 638-647: a verify button sets the target and the
\* dialog mounts with fresh state.
OpenVerify(i, type) ==
    /\ verifyTarget = NoOffer
    /\ verifyTarget' = [rec |-> recs[i], type |-> type]
    /\ step' = "start"
    /\ gfPrice' = ""
    /\ trail' = <<>>
    /\ UNCHANGED <<recs, now, emitted>>
    /\ UNCHANGED nonVerifyVars

\* Lines 253, 641: onClose.
CloseVerify ==
    /\ verifyTarget # NoOffer
    /\ verifyTarget' = NoOffer
    /\ UNCHANGED <<recs, step, gfPrice, now, trail, emitted>>
    /\ UNCHANGED nonVerifyVars

\* Lines 204-216: handleOpenGF, offered on the start step and again on the
\* date check.
OpenGF ==
    /\ verifyTarget # NoOffer
    /\ step \in {"start", "check-dates"}
    /\ step' = IF step = "start" THEN "check-prefill" ELSE step
    /\ trail' = Visit(trail, "open-gf")
    /\ UNCHANGED <<recs, verifyTarget, gfPrice, now, emitted>>
    /\ UNCHANGED nonVerifyVars

\* The buttons with one more on the prefill check that goes to the price
\* step directly.
StepButtons_SkipsDateCheck ==
    { <<"check-prefill", "check-dates">>, <<"check-prefill", "failed-prefill">>,
      <<"check-prefill", "match-price">>,
      <<"check-dates", "match-price">>, <<"match-price", "check-dates">> }

\* The buttons that only move the dialog: lines 306, 309, 327, 350.
StepButtons ==
    { <<"check-prefill", "check-dates">>, <<"check-prefill", "failed-prefill">>,
      <<"check-dates", "match-price">>, <<"match-price", "check-dates">> }

SetStep(from, to) ==
    /\ verifyTarget # NoOffer
    /\ step = from
    /\ step' = to
    /\ trail' = Visit(trail, to)
    /\ UNCHANGED <<recs, verifyTarget, gfPrice, now, emitted>>
    /\ UNCHANGED nonVerifyVars

\* Line 344: the price input's onChange.
SetGfPrice(text) ==
    /\ verifyTarget # NoOffer
    /\ step = "match-price"
    /\ gfPrice' = text
    /\ UNCHANGED <<recs, verifyTarget, step, now, trail, emitted>>
    /\ UNCHANGED nonVerifyVars

\* Lines 347 and 374, 233-249, 511-524: handleFinalSubmit(true,
\* Number(gfPrice)) on the price step or handleFinalSubmit(false) on the
\* failed-prefill step; onConfirm is handleVerifyConfirm, which updates recs
\* and clears the target.
FinalSubmit ==
    /\ verifyTarget # NoOffer
    /\ step \in {"match-price", "failed-prefill"}
    /\ now < MaxConfirms
    /\ LET seenPrice == IF step = "match-price" THEN <<Number(gfPrice)>> ELSE Undefined
       IN  emitted' = VerificationReport(verifyTarget.type, step, seenPrice, now)
    /\ recs' = handleVerifyConfirm(recs, verifyTarget, emitted')
    /\ verifyTarget' = NoOffer
    /\ now' = now + 1
    /\ UNCHANGED <<step, gfPrice, trail>>
    /\ UNCHANGED nonVerifyVars

VerifyNext ==
    \/ \E i \in DOMAIN recs, type \in {"CHEAPEST", "RECOMMENDED"} : OpenVerify(i, type)
    \/ CloseVerify
    \/ OpenGF
    \/ \E button \in StepButtons : SetStep(button[1], button[2])
    \/ \E text \in {"", "4000", "52000"} : SetGfPrice(text)
    \/ FinalSubmit

VerifySpec == VerifyInit /\ [][VerifyNext]_vars

---------------------------------------------------------------------------
(* SelectorSpec: PassengerSelector *)

PassengerKeys == {"adults", "children", "infantsInSeat", "infantsOnLap"}

TotalPassengers(p) == p.adults + p.children + p.infantsInSeat + p.infantsOnLap

\* Line 76: Math.max(key === 'adults' ? 1 : 0, passengers[key] + delta).
NewVal(p, key, delta) ==
    LET floor == IF key = "adults" THEN 1 ELSE 0
        moved == p[key] + delta
    IN  IF moved > floor THEN moved ELSE floor

\* update with the test of line 79 left out: onChange is always called.
update_Unchecked(p, key, delta) == [p EXCEPT ![key] = NewVal(p, key, delta)]

\* Lines 75-82: the passengers after update(key, delta); onChange(p) is
\* called only when the new total is at most 9.
update(p, key, delta) ==
    LET changed == [p EXCEPT ![key] = NewVal(p, key, delta)]
    IN  IF TotalPassengers(changed) <= MaxPassengers THEN changed ELSE p

SelectorInit ==
    /\ NonSelectorOff
    /\ query = [passengers |-> DefaultPassengers]

\* Lines 111 and 115, 548: a - or + button; onChange is
\* setQuery(prev => ({ ...prev, passengers: p })).
Update(key, delta) ==
    /\ query' = [query EXCEPT !.passengers = update(query.passengers, key, delta)]
    /\ UNCHANGED nonSelectorVars

SelectorNext == \E key \in PassengerKeys, delta \in {-1, 1} : Update(key, delta)

SelectorSpec == SelectorInit /\ [][SelectorNext]_vars

---------------------------------------------------------------------------
(* DatesSpec: the dates of generateRawMockOffers *)

\* Trip lengths in nights run from 0 to this many.
MaxNights == 7

\* Line 31: Math.min(28, 1 + Math.floor((a / 4) * 27)).
SampledDay(a) ==
    LET day == 1 + ((a * 27) \div 4)
    IN  IF day < 28 THEN day ELSE 28

\* Line 30: a = 0..4.
SampledDays == {SampledDay(a) : a \in 0..4}

\* String(n).padStart(2, '0')
PadStart2(n) ==
    LET text == DecimalString(n)
    IN  IF Len(text) < 2 THEN "0" \o text ELSE text

\* Lines 215-216: departDate and returnDate.
MockDates(m, day, tripLengthNights) ==
    [departDate |-> MonthKey(m) \o "-" \o PadStart2(day),
     returnDate |-> MonthKey(m) \o "-" \o PadStart2(day + tripLengthNights)]

DatesInit ==
    /\ NonDatesOff
    /\ sample \in [month : 0..11, day : SampledDays, tripLengthNights : 0..MaxNights]
    /\ generated = NoOffer

\* Line 33: this.generateRawMockOffers(params, month, day, ...).
GenerateDates ==
    /\ generated = NoOffer
    /\ generated' = MockDates(sample.month, sample.day, sample.tripLengthNights)
    /\ UNCHANGED sample
    /\ UNCHANGED nonDatesVars

DatesNext == GenerateDates

DatesSpec == DatesInit /\ [][DatesNext]_vars

---------------------------------------------------------------------------
(* Properties of the offer pipeline (checked under Spec) *)

Range(s) == {s[i] : i \in DOMAIN s}

CountOf(code, s) == Cardinality({i \in DOMAIN s : s[i] = code})

Validated == pc = "validated"

\* The offer has a first outbound segment, hence an outbound carrier.
HasOutboundCarrier(o) == Len(o.slices) >= 1 /\ Len(o.slices[1].segments) >= 1

\* Every slice has at least one segment (stopsCount = segments.length - 1 >= 0).
SlicesHaveSegments(o) == \A k \in DOMAIN o.slices : Len(o.slices[k].segments) >= 1

\* The places <<k, i>> where segment i + 1 of slice k does not start where
\* segment i ended.
BrokenConnections(o) ==
    {ki \in UNION {{<<k, i>> : i \in 1..(Len(o.slices[k].segments) - 1)} :
                      k \in DOMAIN o.slices} :
        o.slices[ki[1]].segments[ki[2]].toIata
            # o.slices[ki[1]].segments[ki[2] + 1].fromIata}

\* C1: after a validateOffer pass in which a hard rule appended a reason
\* code, the confidence is LOW; the soft outlier check never turns LOW into
\* MEDIUM.
C1_LowIsNeverOverwritten ==
    (Validated /\ offer.validation.reasonCodes # <<>>)
        => offer.validation.confidence = "LOW"

\* C2: the displayed total is the rounded base total converted and rounded
\* again: price.totalPHP = round(price.total * price.fxRate).
C2_DoubleRounding ==
    pc # "raw" => offer.price.totalPHP = RoundDiv(offer.price.total * offer.price.fxRate, 100)

\* C5: validateOffer never raises, whatever the offer's slices.
C5_ValidateNeverRaises == Validated => ~threw

\* C6: a long-haul destination with a 5J or AK first outbound segment is
\* QUARANTINED with INVALID_CARRIER_FOR_DISTANCE; any other destination never
\* gets that code.
C6_CarrierForDistance ==
    Validated =>
        /\ ( /\ offer.destinationIata \in {"SFO", "LAX", "JFK", "LHR", "CDG", "FCO"}
             /\ HasOutboundCarrier(offer)
             /\ offer.slices[1].segments[1].carrierIata \in {"5J", "AK"} )
           => /\ offer.validation.status = "QUARANTINED"
              /\ "INVALID_CARRIER_FOR_DISTANCE" \in Range(offer.validation.reasonCodes)
        /\ offer.destinationIata \notin {"SFO", "LAX", "JFK", "LHR", "CDG", "FCO"}
           => "INVALID_CARRIER_FOR_DISTANCE" \notin Range(offer.validation.reasonCodes)

C6_Witness ==
    /\ Validated
    /\ offer.destinationIata = "LHR"
    /\ HasOutboundCarrier(offer)
    /\ offer.slices[1].segments[1].carrierIata = "AK"
    /\ offer.price.totalPHP >= 15000
    /\ offer.validation.status = "QUARANTINED"
    /\ offer.validation.reasonCodes = <<"INVALID_CARRIER_FOR_DISTANCE">>

C8_MissingInboundSlice ==
    (Validated /\ offer.tripType = "round_trip" /\ Len(offer.slices) < 2)
        => /\ offer.validation.status = "QUARANTINED"
           /\ "MISSING_INBOUND_SLICE" \in Range(offer.validation.reasonCodes)

BreaksNoHardRule(o) ==
    /\ ~ ( /\ o.destinationIata \in {"SFO", "LAX", "JFK", "LHR", "CDG", "FCO"}
           /\ \/ o.slices[1].segments[1].carrierIata \in {"5J", "AK"}
              \/ o.price.totalPHP < 15000 )
    /\ ~ (o.tripType = "round_trip" /\ Len(o.slices) < 2)
    /\ BrokenConnections(o) = {}

---------------------------------------------------------------------------
(* Properties of getMonthlyRecommendations (checked under EngineSpec) *)

\* How many of the recommendations name the country.
WinsOf(code, list) == Cardinality({i \in DOMAIN list : list[i].country = code})

\* C3: with diversify on, a month's winner has already won 2 (or more) of
\* the earlier months only if every country of that month's candidate list
\* has a usage count of at least 2.
C3_DiversifyCap ==
    [][ (diversify /\ Len(allMonthsRecs') = Len(allMonthsRecs) + 1)
           => LET w == allMonthsRecs'[Len(allMonthsRecs')].country
              IN  WinsOf(w, allMonthsRecs) >= 2
                     => \A i \in DOMAIN candidates :
                           UsageOf(countryUsage, candidates[i].country) >= 2 ]_vars

\* A finished build with diversify on in which SG won two months and the
\* third went to GB.
C3_Witness ==
    /\ epc = "done"
    /\ diversify
    /\ Len(allMonthsRecs) = 3
    /\ WinsOf("SG", allMonthsRecs) = 2
    /\ allMonthsRecs[3].country = "GB"

\* C4: every emitted recommendation names a country with a VALID offer in
\* that month: its cheapest and its recommended offer are VALID offers of
\* the month to an airport of the country; nothing QUARANTINED is emitted.
C4_OnlyValidOffersEmitted ==
    \A i \in DOMAIN allMonthsRecs :
        LET rec == allMonthsRecs[i]
        IN  \A o \in {rec.cheapest, rec.recommended} :
                /\ o.validation.status = "VALID"
                /\ o.validation.status # "QUARANTINED"
                /\ o.destinationIata \in COUNTRY_AIRPORTS(rec.country)
                /\ o.departMonth = rec.month

\* A finished build that emitted a long-haul offer (the kind the validator
\* quarantines when the carrier or the price is implausible).
C4_Witness ==
    /\ epc = "done"
    /\ \E i \in DOMAIN allMonthsRecs :
          /\ allMonthsRecs[i].country = "GB"
          /\ allMonthsRecs[i].cheapest.destinationIata = "LHR"
          /\ allMonthsRecs[i].cheapest.validation.status = "VALID"

\* C12: in every emitted MonthRecommendation the cheapest offer has the
\* minimum displayed price and the recommended offer the minimum score among
\* the VALID offers the winning country produced for that month, and the
\* score a candidate is compared by is the score of its recommended offer.
\* Stated on the candidate each country scan appends, and on each emitted
\* recommendation being one of the month's candidates.
C12_CandidateOffers ==
    /\ [](validOffers # <<>> =>
            LET c == candidates[Len(candidates)]
            IN  /\ c.country = COUNTRIES[countryIdx - 1]
                /\ \A o \in Range(validOffers) :
                      /\ o.validation.status = "VALID"
                      /\ o.departMonth = month
                      /\ c.cheapest.price.totalPHP <= o.price.totalPHP
                      /\ calculateOfferScore(c.recommended) <= calculateOfferScore(o)
                /\ c.cheapest \in Range(validOffers)
                /\ c.recommended \in Range(validOffers)
                /\ c.score = calculateOfferScore(c.recommended))
    /\ [][Len(allMonthsRecs') > Len(allMonthsRecs) =>
            LET rec == allMonthsRecs'[Len(allMonthsRecs')]
            IN  /\ rec.month = month
                /\ \E i \in DOMAIN candidates :
                      /\ candidates[i].country = rec.country
                      /\ candidates[i].cheapest = rec.cheapest
                      /\ candidates[i].recommended = rec.recommended]_vars

\* A finished build that emitted a recommendation whose recommended offer is
\* not its cheapest offer.
C12_Witness ==
    /\ epc = "done"
    /\ \E i \in DOMAIN allMonthsRecs :
          /\ allMonthsRecs[i].cheapest # allMonthsRecs[i].recommended
          /\ allMonthsRecs[i].cheapest.price.totalPHP
                < allMonthsRecs[i].recommended.price.totalPHP

\* C13: the month's winner is a candidate of lowest score when diversify is
\* off; when it is on, a candidate of lowest score among those whose country
\* has a usage below 2, and a candidate of lowest score overall only when
\* every country of the candidate list has reached the cap. The winner's
\* usage counter goes up by exactly 1, no other counter changes.
C13_WinnerChoice ==
    [][Len(allMonthsRecs') > Len(allMonthsRecs) =>
          LET rec == allMonthsRecs'[Len(allMonthsRecs')]
              open == {i \in DOMAIN candidates :
                          UsageOf(countryUsage, candidates[i].country) < 2}
              pool == IF diversify /\ open # {} THEN open ELSE DOMAIN candidates
          IN  /\ \E w \in pool :
                    /\ candidates[w].country = rec.country
                    /\ \A j \in pool : candidates[w].score <= candidates[j].score
              /\ UsageOf(countryUsage', rec.country) = UsageOf(countryUsage, rec.country) + 1
              /\ \A c \in Range(COUNTRIES) \ {rec.country} :
                    UsageOf(countryUsage', c) = UsageOf(countryUsage, c)]_vars

\* With diversify on, SG has been counted twice and the third month's
\* winner is GB, counted once, with a score above both earlier winners'.
C13_Witness ==
    /\ diversify
    /\ Len(allMonthsRecs) = 3
    /\ UsageOf(countryUsage, "SG") = 2
    /\ UsageOf(countryUsage, "GB") = 1
    /\ allMonthsRecs[3].country = "GB"
    /\ \A i \in 1..2 : calculateOfferScore(allMonthsRecs[i].recommended)
                          < calculateOfferScore(allMonthsRecs[3].recommended)

\* How far the loops of a build have come: every step moves it up by one.
BuildProgress ==
    month * (Len(COUNTRIES) + 1) + (countryIdx - 1) + (IF epc = "done" THEN 1 ELSE 0)

\* C14: with a raw-offer source that never fails, the build terminates
\* without an error (a build that has not returned can always take a step,
\* and every step raises a bounded progress count); the months of the list
\* are strictly increasing within the horizon; a country adds a candidate
\* exactly when its scan left a VALID offer, and a month is emitted exactly
\* when it has a candidate, so the list holds month m iff some country had
\* a VALID offer in month m; a month without candidates is skipped with the
\* usage counter and the list unchanged.
C14_BuildTerminates ==
    /\ [](epc = "done" \/ ENABLED EngineNext)
    /\ [](BuildProgress <= NumMonths * (Len(COUNTRIES) + 1) + 1)
    /\ [][BuildProgress' = BuildProgress + 1]_vars
    /\ [](epc # "threw")
    /\ [](/\ \A i \in DOMAIN allMonthsRecs : allMonthsRecs[i].month \in 0..(month - 1)
          /\ \A i, j \in DOMAIN allMonthsRecs :
                i < j => allMonthsRecs[i].month < allMonthsRecs[j].month
          /\ month \in 0..NumMonths
          /\ countryIdx = 1 => candidates = <<>>)
    /\ [][LET scanned == countryIdx' = countryIdx + 1
              advanced == month' # month
          IN  /\ scanned =>
                    (/\ month' = month
                     /\ allMonthsRecs' = allMonthsRecs
                     /\ IF validOffers' # <<>>
                        THEN /\ Len(candidates') = Len(candidates) + 1
                             /\ SubSeq(candidates', 1, Len(candidates)) = candidates
                        ELSE candidates' = candidates)
              /\ advanced =>
                    (/\ month' = month + 1
                     /\ countryIdx > Len(COUNTRIES)
                     /\ IF candidates # <<>>
                        THEN /\ Len(allMonthsRecs') = Len(allMonthsRecs) + 1
                             /\ SubSeq(allMonthsRecs', 1, Len(allMonthsRecs)) = allMonthsRecs
                             /\ allMonthsRecs'[Len(allMonthsRecs')].month = month
                        ELSE /\ allMonthsRecs' = allMonthsRecs
                             /\ countryUsage' = countryUsage)
              /\ epc' = "done" =>
                    (month = NumMonths /\ allMonthsRecs' = allMonthsRecs)]_vars

\* A finished build that emitted months 0 and 2 and skipped month 1, with
\* two wins counted.
C14_Witness ==
    /\ epc = "done"
    /\ Len(allMonthsRecs) = 2
    /\ allMonthsRecs[1].month = 0
    /\ allMonthsRecs[2].month = 2
    /\ SumSeq([i \in 1..Len(COUNTRIES) |-> UsageOf(countryUsage, COUNTRIES[i])]) = 2

\* The price of cheapest is at most the price of recommended, and the score
\* of recommended at most the score of cheapest.
CheapestVsRecommended(r) ==
    /\ r.cheapest.price.totalPHP <= r.recommended.price.totalPHP
    /\ calculateOfferScore(r.recommended) <= calculateOfferScore(r.cheapest)

\* Offer k of the list has a lower price and a lower score than every other.
StrictlyBest(offers, k) ==
    \A j \in DOMAIN offers \ {k} :
        /\ offers[k].price.totalPHP < offers[j].price.totalPHP
        /\ calculateOfferScore(offers[k]) < calculateOfferScore(offers[j])

\* C27: in every emitted MonthRecommendation (and every candidate) the
\* cheapest offer costs no more than the recommended one and the
\* recommended offer scores no higher than the cheapest one; when one VALID
\* offer of the country has the minimum price and the minimum score and no
\* other offer ties it, cheapest and recommended are both that offer.
C27_CheapestAndRecommended ==
    /\ \A i \in DOMAIN allMonthsRecs : CheapestVsRecommended(allMonthsRecs[i])
    /\ \A i \in DOMAIN candidates : CheapestVsRecommended(candidates[i])
    /\ validOffers # <<>> =>
          \A k \in DOMAIN validOffers :
              StrictlyBest(validOffers, k) =>
                  /\ candidates[Len(candidates)].cheapest = validOffers[k]
                  /\ candidates[Len(candidates)].recommended = validOffers[k]

\* After an emission, a country has produced two VALID offers of which the
\* second has the lower price and the lower score, and its candidate has that
\* offer as cheapest and as recommended.
C27_Witness ==
    /\ Len(allMonthsRecs) >= 1
    /\ Len(validOffers) = 2
    /\ StrictlyBest(validOffers, 2)
    /\ candidates[Len(candidates)].cheapest = validOffers[2]
    /\ candidates[Len(candidates)].recommended = validOffers[2]

---------------------------------------------------------------------------
(* Properties of calculateOfferScore (checked under ScoreSpec) *)

\* Total stops and total duration of an offer: the outbound slice plus, when
\* present, the inbound slice.
TotalStops(o) == SumSeq([k \in DOMAIN o.slices |-> o.slices[k].stopsCount])

TotalDuration(o) == SumSeq([k \in DOMAIN o.slices |-> o.slices[k].totalDurationMin])

\* C11: calculateOfferScore is monotonically non-decreasing in the displayed
\* price when total stops and total duration are equal, in total stops when
\* price and total duration are equal, and in total duration when price and
\* total stops are equal (offers with an outbound slice).
C11_ScoreMonotone ==
    spc = "scored" =>
        LET a == scoredOffers[1]
            b == scoredOffers[2]
        IN  /\ (/\ a.price.totalPHP <= b.price.totalPHP
                /\ TotalStops(a) = TotalStops(b)
                /\ TotalDuration(a) = TotalDuration(b)) => scores[1] <= scores[2]
            /\ (/\ a.price.totalPHP = b.price.totalPHP
                /\ TotalStops(a) <= TotalStops(b)
                /\ TotalDuration(a) = TotalDuration(b)) => scores[1] <= scores[2]
            /\ (/\ a.price.totalPHP = b.price.totalPHP
                /\ TotalStops(a) = TotalStops(b)
                /\ TotalDuration(a) <= TotalDuration(b)) => scores[1] <= scores[2]

\* Two scored round trips of one price and one total duration whose total
\* stops differ through the inbound slice alone, and the scores differ.
C11_Witness ==
    /\ spc = "scored"
    /\ Len(scoredOffers[1].slices) = 2
    /\ Len(scoredOffers[2].slices) = 2
    /\ scoredOffers[1].price.totalPHP = scoredOffers[2].price.totalPHP
    /\ TotalDuration(scoredOffers[1]) = TotalDuration(scoredOffers[2])
    /\ scoredOffers[1].slices[1].stopsCount = scoredOffers[2].slices[1].stopsCount
    /\ TotalStops(scoredOffers[1]) < TotalStops(scoredOffers[2])
    /\ scores[1] < scores[2]

---------------------------------------------------------------------------
(* Properties of concurrent builds (checked under CallsSpec) *)

\* The recommendations and the counter one call builds alone from the raw
\* offers of the first n months of a list, starting from nothing.
RECURSIVE AloneAfter(_, _, _)
AloneAfter(rawOffers, div, n) ==
    IF n = 0
    THEN [cpc |-> "months", diversify |-> div, month |-> 0, countryUsage |-> <<>>,
          allMonthsRecs |-> <<>>, rawOffers |-> <<>>]
    ELSE MonthTurn(AloneAfter(rawOffers, div, n - 1), rawOffers[n])

\* C15: each call starts from an empty usage counter, and at every point of
\* every interleaving of two calls the recommendations and the counter of a
\* call are those it would have built alone from the raw offers it has
\* received.
C15_CallsAreIsolated ==
    \A c \in CallIds :
        /\ (calls[c].cpc = "months" /\ calls[c].month = 0) => calls[c].countryUsage = <<>>
        /\ calls[c].cpc \in {"months", "done"} =>
              LET alone == AloneAfter(calls[c].rawOffers, calls[c].diversify,
                                      Len(calls[c].rawOffers))
              IN  /\ calls[c].allMonthsRecs = alone.allMonthsRecs
                  /\ calls[c].countryUsage = alone.countryUsage

\* Both calls are done, both diversified and both on the same raw offers;
\* each hit the cap (SG, SG, then GB) as if the other had not run.
C15_Witness ==
    /\ \A c \in CallIds :
          /\ calls[c].cpc = "done"
          /\ calls[c].diversify
          /\ Len(calls[c].allMonthsRecs) = 3
          /\ calls[c].allMonthsRecs[1].country = "SG"
          /\ calls[c].allMonthsRecs[2].country = "SG"
          /\ calls[c].allMonthsRecs[3].country = "GB"
          /\ UsageOf(calls[c].countryUsage, "SG") = 2

---------------------------------------------------------------------------
(* Properties of the trend builder (checked under TrendSpec) *)

\* The keys of a year's trend, in order.
YearKeys ==
    <<"2026-01", "2026-02", "2026-03", "2026-04", "2026-05", "2026-06",
      "2026-07", "2026-08", "2026-09", "2026-10", "2026-11", "2026-12">>

\* C16: whatever list the source returns for a month, the empty list
\* included, getYearlyTrend fails in no month and returns one point per
\* month of the horizon, keyed 2026-01, 2026-02, ... in order.
C16_TrendAlwaysComplete ==
    /\ tpc # "threw"
    /\ tpc = "done" =>
          /\ Len(series) = NumMonths
          /\ \A i \in DOMAIN series : series[i].month = YearKeys[i]

\* C17: every trend point has the displayed price of the one offer sampled
\* for its month as cheapest, round(cheapest * 1.10) as recommended, null
\* as verified, and the confidence validateOffer left on the sampled offer.
C17_TrendPoint ==
    /\ \A i \in DOMAIN series :
          /\ series[i].verified = Null
          /\ 10 * series[i].recommended - 11 * series[i].cheapest \in (-4)..5
    /\ series # <<>> =>
          LET point == series[Len(series)]
          IN  /\ valid # NoOffer
              /\ valid.destinationIata = destIata
              /\ valid.departMonth = Len(series) - 1
              /\ point.cheapest = valid.price.totalPHP
              /\ point.confidence = valid.validation.confidence
              /\ valid.validation.status = "QUARANTINED" => valid.validation.reasonCodes # <<>>

\* A finished trend with a point sampled from the injected fault: 8,468 PHP
\* to LHR, quarantined with LOW confidence, plotted with 9,315 recommended.
C17_Witness ==
    /\ tpc = "done"
    /\ \E i \in DOMAIN series :
          /\ series[i].cheapest = 8468
          /\ series[i].recommended = 9315
          /\ series[i].confidence = "LOW"
          /\ series[i].verified = Null

---------------------------------------------------------------------------
(* Properties of the month view (checked under RecClickSpec) *)

\* C18: getTravelInsight always resolves to a non-empty string: the fixed
\* fallback when the service failed, the fixed default when the service
\* returned no or an empty text, the service's text otherwise; a failure is
\* never passed on to the caller.
C18_InsightNeverEmpty ==
    \A i \in DOMAIN clicks :
        clicks[i].at = "done" =>
            LET response == clicks[i].response
                text == clicks[i].text
            IN  /\ text # ""
                /\ response.kind = "rejected" =>
                      text = "Great value for this destination during this time of year."
                /\ (response.kind = "resolved" /\ "text" \notin DOMAIN response) =>
                      text = "A perfect balance of cost and experience for this season."
                /\ (response.kind = "resolved" /\ "text" \in DOMAIN response) =>
                      text = IF response.text = ""
                             THEN "A perfect balance of cost and experience for this season."
                             ELSE response.text

\* One insight request was rejected and one resolved with an empty text;
\* the fallback and the default have been displayed.
C18_Witness ==
    /\ Len(clicks) = 2
    /\ clicks[1].at = "done"
    /\ clicks[2].at = "done"
    /\ clicks[1].response.kind = "rejected"
    /\ clicks[2].response = [kind |-> "resolved", text |-> ""]
    /\ clicks[1].text = "Great value for this destination during this time of year."
    /\ insight = "A perfect balance of cost and experience for this season."

\* C19: once every request of every handleRecClick run has completed, the
\* recommendation selected is the one clicked last, and the trend and the
\* insight on display are results of requests made for it.
C19_LastSelectionDisplayed ==
    (clicks # <<>> /\ \A i \in DOMAIN clicks : clicks[i].at = "done") =>
        /\ selectedRec = clicks[Len(clicks)].rec
        /\ clicks[trendData.request].rec = selectedRec
        /\ trendData.destIata = selectedRec.recommended.destinationIata
        /\ \E i \in DOMAIN clicks : clicks[i].rec = selectedRec /\ insight = clicks[i].text

---------------------------------------------------------------------------
(* Properties of the verification flow (checked under VerifySpec) *)

\* C20: after a confirmation is applied to a month, isUserVerified,
\* verifiedType, verifiedPrice and verifiedAt of that month's recommendation
\* all carry the values of that confirmation (a confirmation without a
\* price, or with price 0, leaves no price); no field keeps the value of an
\* earlier confirmation.
C20_LastConfirmationWins ==
    [][now' = now + 1 =>
          LET seenPrice == IF step = "match-price" THEN <<Number(gfPrice)>> ELSE Undefined
          IN  \A i \in DOMAIN recs' :
                recs'[i].month = verifyTarget.rec.month =>
                    /\ recs'[i].isUserVerified = (step = "match-price")
                    /\ recs'[i].verifiedType = verifyTarget.type
                    /\ recs'[i].verifiedAt = now
                    /\ recs'[i].verifiedPrice = OrElse(seenPrice, Undefined)]_vars

VerifiedFields == {"isUserVerified", "verifiedType", "verifiedPrice", "verifiedAt"}

\* C21: a confirmation for month M leaves the length and order of the list
\* and every record of another month as they were, and changes no field of
\* the month-M record other than isUserVerified, verifiedType, verifiedPrice
\* and verifiedAt (month, country, cheapest, recommended and lastRefreshed
\* keep their values).
C21_ConfirmationFrame ==
    [][now' = now + 1 =>
          /\ Len(recs') = Len(recs)
          /\ \A i \in DOMAIN recs :
                IF recs[i].month = verifyTarget.rec.month
                THEN /\ DOMAIN recs'[i] = DOMAIN recs[i] \cup VerifiedFields
                     /\ \A f \in DOMAIN recs[i] \ VerifiedFields : recs'[i][f] = recs[i][f]
                     /\ \A f \in {"month", "country", "cheapest", "recommended",
                                   "lastRefreshed"} :
                            f \in DOMAIN recs[i] /\ recs'[i][f] = recs[i][f]
                ELSE recs'[i] = recs[i]]_vars

\* A confirmation for month 0 has been applied and the month-1 record is
\* the one the list started with.
C21_Witness ==
    /\ now >= 1
    /\ Len(recs) = 2
    /\ "isUserVerified" \in DOMAIN recs[1]
    /\ recs[2] = AppRecs[2]

\* Google Flights opened, then the prefill confirmed, then the exact dates
\* confirmed.
DatesConfirmedInOrder == trail = <<"open-gf", "check-dates", "match-price">>

\* C25: the dialog is on the price step only after Google Flights was
\* opened, the prefill was confirmed and the exact dates were confirmed, in
\* that order; a report is emitted only from the price step or the
\* failed-prefill step; a report saying the dates were confirmed comes from
\* the price step, and a report from the failed-prefill step says the
\* prefill failed and the dates were not confirmed.
C25_DateCheckIsForced ==
    /\ [](step = "match-price" => DatesConfirmedInOrder)
    /\ [][emitted' # emitted =>
            /\ step \in {"match-price", "failed-prefill"}
            /\ emitted'.gfSameDatesConfirmed => (step = "match-price" /\ DatesConfirmedInOrder)
            /\ step = "failed-prefill" =>
                  (emitted'.gfPrefillFailed /\ ~emitted'.gfSameDatesConfirmed)]_vars

\* A report confirming the dates has been emitted after the three answers.
C25_Witness ==
    /\ emitted # NoOffer
    /\ emitted.gfSameDatesConfirmed
    /\ step = "match-price"
    /\ DatesConfirmedInOrder

\* C26: a recommendation with isUserVerified = true carries the verified
\* offer type and a defined, positive verifiedPrice; submitting the price
\* step with an empty or zero amount produces no verified record without a
\* price.
C26_VerifiedHasPrice ==
    \A i \in DOMAIN recs :
        ("isUserVerified" \in DOMAIN recs[i] /\ recs[i].isUserVerified) =>
            /\ recs[i].verifiedType \in {"CHEAPEST", "RECOMMENDED"}
            /\ recs[i].verifiedPrice # Undefined
            /\ recs[i].verifiedPrice[1] > 0

---------------------------------------------------------------------------
(* Properties of the passenger selector (checked under SelectorSpec) *)

\* C22: after any sequence of +1/-1 updates from one adult, the query's
\* passengers have adults >= 1, children, infantsInSeat and infantsOnLap
\* >= 0 and a total of at most 9; an update whose new total would exceed 9
\* leaves the passengers as they are.
C22_PassengersInRange ==
    LET p == query.passengers
    IN  /\ p.adults >= 1
        /\ p.children >= 0
        /\ p.infantsInSeat >= 0
        /\ p.infantsOnLap >= 0
        /\ TotalPassengers(p) <= 9
        /\ \A key \in PassengerKeys, delta \in {-1, 1} :
              TotalPassengers(p) - p[key] + NewVal(p, key, delta) > 9 =>
                  update(p, key, delta) = p

\* Nine passengers, not all of them adults: the next +1 would exceed 9.
C22_Witness ==
    /\ TotalPassengers(query.passengers) = 9
    /\ query.passengers.adults = 1
    /\ query.passengers.infantsOnLap >= 1

---------------------------------------------------------------------------
(* Properties of validateOffer on any prior verdict (checked under         *)
(* RevalidateSpec)                                                         *)

\* LOW < MEDIUM < HIGH.
ConfidenceTier(c) == CASE c = "LOW" -> 0 [] c = "MEDIUM" -> 1 [] c = "HIGH" -> 2

\* A QUARANTINED offer is never returned VALID.
QuarantineIsKept ==
    [][(pc' = "validated" /\ offer.validation.status = "QUARANTINED")
          => offer'.validation.status # "VALID"]_vars

---------------------------------------------------------------------------
(* Properties of the generated dates (checked under DatesSpec) *)

\* Days of month m (0-based) in 2026 and 2027, neither a leap year.
DaysInMonth(m) ==
    CASE m = 1 -> 28
      [] m \in {3, 5, 8, 10} -> 30
      [] OTHER -> 31

\* YYYY-MM-DD of a calendar day of 2026 or 2027.
IsoDate(date) ==
    (IF date.year = 2026 THEN "2026-" ELSE "2027-") \o PadStart2(date.month + 1)
        \o "-" \o PadStart2(date.day)

ValidIsoDates ==
    {IsoDate(date) :
        date \in {x \in [year : {2026, 2027}, month : 0..11, day : 1..31] :
                    x.day <= DaysInMonth(x.month)}}

\* The calendar day n days after date.
RECURSIVE PlusDays(_, _)
PlusDays(date, n) ==
    IF date.day + n <= DaysInMonth(date.month)
    THEN [date EXCEPT !.day = date.day + n]
    ELSE PlusDays([year |-> IF date.month = 11 THEN date.year + 1 ELSE date.year,
                   month |-> (date.month + 1) % 12, day |-> 1],
                  n - (DaysInMonth(date.month) - date.day) - 1)

\* C24: for every month 0..11, sampled day and trip length in nights, the
\* departDate and the returnDate of a generated offer are ISO dates of days
\* that exist, and returnDate is the day tripLengthNights days after
\* departDate.
C24_DatesAreCalendarDates ==
    generated # NoOffer =>
        LET depart == [year |-> 2026, month |-> sample.month, day |-> sample.day]
        IN  /\ generated.departDate = IsoDate(depart)
            /\ generated.departDate \in ValidIsoDates
            /\ generated.returnDate \in ValidIsoDates
            /\ generated.returnDate = IsoDate(PlusDays(depart, sample.tripLengthNights))

====
